---------------------------- MODULE Spec2Model ----------------------------
(***************************************************************************)
(* Model of the wallet service of src/main.go: the wallets table, the      *)
(* wallet_transactions log, the wallet-creation handler and the transfer   *)
(* ("send") handler with its two loader goroutines and its transaction.    *)
(*                                                                         *)
(* Decimal balances are modelled as integers (decimal.Decimal is exact, so *)
(* Sub/Add/IsPositive are integer -, + and > 0 on a common scale).  Wallet *)
(* ids, random 6-character strings in the code, are the numbers 1..NumIds; *)
(* 0 stands for the empty string of a zero-valued Wallet.  The date column *)
(* of wallet_transactions (time.Now()) is not modelled.                    *)
(*                                                                         *)
(* The store is modelled at the weakest isolation the code itself relies   *)
(* on: a query inside a transaction reads the committed tables as they are *)
(* when the query runs, the statements of ExecContext are buffered in the  *)
(* transaction and Commit applies them together.  Every store call may     *)
(* fail.                                                                   *)
(***************************************************************************)
EXTENDS Integers, Sequences, FiniteSets, TLC

\* ------------------------------------------------------------------ bounds
NumIds == 2        \* size of the id space GenerateRandomString draws from
MaxRequests == 2   \* transfer requests served in one behaviour
Step == 30         \* the non-boundary amount a request may carry

\* -------------------------------------------------------- program constants
InitialBalance == 100
StatusOK == 200
StatusCreated == 201
StatusBadRequest == 400
StatusNotFound == 404
StatusInternalServerError == 500

Ids == 1..NumIds
Reqs == 1..MaxRequests
Sides == {"from", "to"}
\* amounts a request body may carry: negative, zero, positive, and the two
\* amounts that bring a fresh wallet to exactly zero
Amounts == {0 - InitialBalance, 0 - Step, 0, Step, InitialBalance}

VARIABLES
  alive,                \* the server process is running
  wallets,              \* committed table wallets: a function id -> balance on the ids that have a row
  wallet_transactions,  \* committed table wallet_transactions, in insertion order
  createStatus,         \* status of the last answered POST /api/v1/wallet (0: none)
  handler,              \* per send request: the handler's locals and position
  loader,               \* per send request and side: the loadByIdAsync goroutine
  reader                \* the GET handler: its position and its last response

vars == <<alive, wallets, wallet_transactions, createStatus, handler, loader,
          reader>>

\* ------------------------------------------------------------------ values
ZeroWallet == [Id |-> 0, Balance |-> 0]
NoResult == [Wallet |-> ZeroWallet, Err |-> "nil"]

IdleHandler ==
  [pc |-> "idle", fromId |-> 0, toId |-> 0, amount |-> 0, tx |-> "none",
   walletResFrom |-> NoResult, walletResTo |-> NoResult,
   fromAmount |-> 0, toAmount |-> 0, txWrites |-> <<>>, status |-> 0]

IdleLoader == [pc |-> "none", id |-> 0, res |-> NoResult]

\* the GET handler before its first request: op is the endpoint, rows the
\* WalletTransactionDTO slice (without its time field)
IdleReader ==
  [pc |-> "idle", op |-> "none", userInputId |-> 0, status |-> 0,
   balance |-> 0, rows |-> <<>>]

\* outcomes of one call into the store
StoreOutcomes == {"ok", "fail"}

\* ------------------------------------------------------ the store's tables
\* select * from wallets where id = ?  scanned into a Wallet
QueryRow(w, id) ==
  IF id \notin DOMAIN w
    THEN [Wallet |-> ZeroWallet, Err |-> "ErrNoRows"]
    ELSE [Wallet |-> [Id |-> id, Balance |-> w[id]], Err |-> "nil"]

\* the primary key constraint of wallets admits a row with this id
\* (faulty variant: insert or replace)
PrimaryKeyFreeAlways(w, id) == TRUE
PrimaryKeyFree(w, id) == id \notin DOMAIN w

\* insert into wallets(id, balance) values(?,100), the primary key being free
InsertWallet(w, id, balance) ==
  [i \in DOMAIN w \cup {id} |-> IF i = id THEN balance ELSE w[i]]

\* one statement applied to the tables db = [wallets, wallet_transactions]
\* (faulty variant: first writer wins, an update of a row that was already
\* rewritten is dropped)
ApplyStmtFirstWriterWins(db, s) ==
  IF s.op = "update"
    THEN IF s.id \notin DOMAIN db.wallets \/ db.wallets[s.id] # InitialBalance
           THEN db
           ELSE [db EXCEPT !.wallets[s.id] = s.balance]
    ELSE [db EXCEPT !.wallet_transactions = Append(@, s.row)]
ApplyStmt(db, s) ==
  IF s.op = "update"
    THEN IF s.id \notin DOMAIN db.wallets
           THEN db
           ELSE [db EXCEPT !.wallets[s.id] = s.balance]
    ELSE [db EXCEPT !.wallet_transactions = Append(@, s.row)]

RECURSIVE ApplyStmts(_, _)
ApplyStmts(db, stmts) ==
  IF stmts = <<>> THEN db
  ELSE ApplyStmts(ApplyStmt(db, Head(stmts)), Tail(stmts))

\* -------------------------------------------------------- the send handler
\* fromAmount and toAmount of the handler
\* (faulty variant: the source is credited)
SubAmountAdds(balance, amount) == balance + amount
SubAmount(balance, amount) == balance - amount
\* (faulty variant: the destination is debited)
AddAmountSubtracts(balance, amount) == balance - amount
AddAmount(balance, amount) == balance + amount
\* (faulty variant: zero passes)
IsPositiveOrZero(d) == d >= 0
IsPositive(d) == d > 0

\* the handler's rejection test
\* (faulty variant: only the source balance is tested)
RejectedSourceOnly(fromAmount, toAmount) == ~IsPositive(fromAmount)
Rejected(fromAmount, toAmount) ==
  ~IsPositive(fromAmount) \/ ~IsPositive(toAmount)

\* the handler's test of a loader's result: Err != nil
\* (faulty variant: Err is not tested)
LoadFailedNever(res) == FALSE
LoadFailed(res) == res.Err # "nil"

\* the status the handler answers when the source load failed, and when the
\* destination load failed
\* (faulty variant: a uniform 400)
SourceErrorStatusBadRequest == StatusBadRequest
SourceErrorStatus == StatusNotFound
DestinationErrorStatus == StatusBadRequest

\* the three statements of the handler's ExecContext, in the order of its text
\* (faulty variant: the destination update comes first)
ExecStatementsDestinationFirst(fromId, toId, amount, fromAmount, toAmount) ==
  << [op |-> "update", id |-> toId, balance |-> toAmount],
     [op |-> "update", id |-> fromId, balance |-> fromAmount],
     [op |-> "insert",
      row |-> [author_id |-> fromId, sender_id |-> toId, balance |-> amount]] >>
\* (faulty variant: the insert is missing)
ExecStatementsNoInsert(fromId, toId, amount, fromAmount, toAmount) ==
  << [op |-> "update", id |-> fromId, balance |-> fromAmount],
     [op |-> "update", id |-> toId, balance |-> toAmount] >>
ExecStatements(fromId, toId, amount, fromAmount, toAmount) ==
  << [op |-> "update", id |-> fromId, balance |-> fromAmount],
     [op |-> "update", id |-> toId, balance |-> toAmount],
     [op |-> "insert",
      row |-> [author_id |-> fromId, sender_id |-> toId, balance |-> amount]] >>

Init ==
  /\ alive = TRUE
  /\ wallets = <<>>
  /\ wallet_transactions = <<>>
  /\ createStatus = 0
  /\ handler = [r \in Reqs |-> IdleHandler]
  /\ loader = [r \in Reqs |-> [s \in Sides |-> IdleLoader]]
  /\ reader = IdleReader

\* send requests are numbered in the order of their arrival
Arrives(r) ==
  /\ handler[r].pc = "idle"
  /\ IF r = 1 THEN TRUE ELSE handler[r - 1].pc # "idle"

\* the handler has written its response and is about to return
Responded(h, txState, status) ==
  [h EXCEPT !.pc = "responded", !.tx = txState, !.status = status]

\* the handler has returned: its locals are gone, its response and the state
\* of its transaction remain
Returned(h) ==
  [IdleHandler EXCEPT !.pc = "done", !.tx = h.tx, !.status = h.status]

\* the loader goroutine has delivered its result and ended
EndedLoader == [IdleLoader EXCEPT !.pc = "done"]

\* os.Exit ends every goroutine: a handler that has written its response has
\* answered, one still in flight never answers, and the locals of all are gone
KilledHandler(h) ==
  IF h.pc \in {"idle", "done"} THEN h
  ELSE IF h.pc = "responded" THEN Returned(h)
  ELSE [IdleHandler EXCEPT !.pc = "killed", !.tx = h.tx]

KilledLoader(l) ==
  IF l.pc \in {"none", "done"} THEN l ELSE [IdleLoader EXCEPT !.pc = "killed"]

\* no send request is between its arrival and its response
Quiescent == \A r \in Reqs : handler[r].pc \in {"idle", "done"}

\* ------------------------------------------------- POST /api/v1/wallet
\* the insert succeeds: the generated id is fresh and the store works
CreateWallet(id) ==
  /\ alive
  /\ PrimaryKeyFree(wallets, id)
  /\ wallets' = InsertWallet(wallets, id, InitialBalance)
  /\ createStatus' = StatusCreated
  /\ UNCHANGED <<alive, wallet_transactions, handler, loader, reader>>

\* the insert fails (the id collides with a row, or the store fails):
\* log.Fatal ends the process before any response is written
CreateWalletInsertFails ==
  /\ alive
  /\ alive' = FALSE
  /\ handler' = [r \in Reqs |-> KilledHandler(handler[r])]
  /\ loader' = [r \in Reqs |-> [s \in Sides |-> KilledLoader(loader[r][s])]]
  /\ reader' = [reader EXCEPT !.pc = "idle"]
  /\ UNCHANGED <<wallets, wallet_transactions, createStatus>>

\* ------------------------------------------- POST /api/v1/wallet/:id/send
\* the body does not bind
SendMalformed(r) ==
  /\ alive
  /\ Arrives(r)
  /\ handler' = [handler EXCEPT ![r] = Responded(@, "none", StatusBadRequest)]
  /\ UNCHANGED <<alive, wallets, wallet_transactions, createStatus, loader, reader>>

\* the body binds, BeginTx succeeds, both loaders are spawned
Send(r, fromId, toId, amount) ==
  /\ alive
  /\ Arrives(r)
  /\ handler' = [handler EXCEPT ![r] =
       [IdleHandler EXCEPT !.pc = "recvFrom", !.fromId = fromId, !.toId = toId,
                           !.amount = amount, !.tx = "open"]]
  /\ loader' = [loader EXCEPT ![r] =
       [s \in Sides |-> [pc |-> "query",
                         id |-> IF s = "from" THEN fromId ELSE toId,
                         res |-> NoResult]]]
  /\ UNCHANGED <<alive, wallets, wallet_transactions, createStatus, reader>>

\* BeginTx fails: tx is nil, tx.Rollback() dereferences it and panics before
\* log.Fatal is reached; the handler unwinds and gin's Recovery middleware
\* answers 500
SendBeginFails(r) ==
  /\ alive
  /\ Arrives(r)
  /\ handler' = [handler EXCEPT ![r] =
       Returned(Responded(IdleHandler, "none", StatusInternalServerError))]
  /\ UNCHANGED <<alive, wallets, wallet_transactions, createStatus, loader, reader>>

\* what the loader's QueryRow(...).Scan returns
LoadResult(txState, w, id, outcome) ==
  IF txState # "open"
    THEN [Wallet |-> ZeroWallet, Err |-> "ErrTxDone"]
  ELSE IF outcome = "fail"
    THEN [Wallet |-> ZeroWallet, Err |-> "StoreError"]
  ELSE QueryRow(w, id)

\* loadByIdAsync up to its channel send: the query on the transaction
LoadQuery(r, s, outcome) ==
  /\ alive
  /\ loader[r][s].pc = "query"
  /\ loader' = [loader EXCEPT ![r][s].pc = "send",
                  ![r][s].res = LoadResult(handler[r].tx, wallets,
                                           loader[r][s].id, outcome)]
  /\ UNCHANGED <<alive, wallets, wallet_transactions, createStatus, handler, reader>>

\* walletResFrom := <-fromCh, the loader's send on the unbuffered channel
\* completing in the same step, and the handler's test of Err
RecvFrom(r) ==
  /\ alive
  /\ handler[r].pc = "recvFrom"
  /\ loader[r]["from"].pc = "send"
  /\ loader' = [loader EXCEPT ![r]["from"] = EndedLoader]
  /\ LET res == loader[r]["from"].res IN
     IF LoadFailed(res)
       THEN handler' = [handler EXCEPT ![r] =
                          Responded([@ EXCEPT !.walletResFrom = res],
                                    "rolledback", SourceErrorStatus)]
       ELSE handler' = [handler EXCEPT ![r].walletResFrom = res,
                          ![r].pc = "recvTo"]
  /\ UNCHANGED <<alive, wallets, wallet_transactions, createStatus, reader>>

\* walletResTo := <-toCh, the test of Err, fromAmount, toAmount and the
\* rejection test (which returns without ending the transaction)
RecvTo(r) ==
  /\ alive
  /\ handler[r].pc = "recvTo"
  /\ loader[r]["to"].pc = "send"
  /\ loader' = [loader EXCEPT ![r]["to"] = EndedLoader]
  /\ LET res == loader[r]["to"].res
         fa == SubAmount(handler[r].walletResFrom.Wallet.Balance, handler[r].amount)
         ta == AddAmount(res.Wallet.Balance, handler[r].amount)
     IN
     IF LoadFailed(res)
       THEN handler' = [handler EXCEPT ![r] =
                          Responded([@ EXCEPT !.walletResTo = res],
                                    "rolledback", DestinationErrorStatus)]
     ELSE IF Rejected(fa, ta)
       THEN handler' = [handler EXCEPT ![r] =
                          Responded([@ EXCEPT !.walletResTo = res,
                                              !.fromAmount = fa, !.toAmount = ta],
                                    handler[r].tx, StatusBadRequest)]
       ELSE handler' = [handler EXCEPT ![r].walletResTo = res,
                          ![r].fromAmount = fa, ![r].toAmount = ta,
                          ![r].pc = "exec"]
  /\ UNCHANGED <<alive, wallets, wallet_transactions, createStatus, reader>>

\* tx.ExecContext with the two updates and the insert
Exec(r, outcome) ==
  /\ alive
  /\ handler[r].pc = "exec"
  /\ IF outcome = "fail"
       THEN handler' = [handler EXCEPT ![r] =
                          Responded(@, "rolledback", StatusInternalServerError)]
       ELSE handler' = [handler EXCEPT ![r].pc = "commit",
                          ![r].txWrites =
                            ExecStatements(handler[r].fromId, handler[r].toId,
                                           handler[r].amount, handler[r].fromAmount,
                                           handler[r].toAmount)]
  /\ UNCHANGED <<alive, wallets, wallet_transactions, createStatus, loader, reader>>

\* the tables after a commit of the buffered statements
\* (faulty variant: only the first statement becomes visible)
CommittedFirstOnly(w, log, stmts) ==
  ApplyStmts([wallets |-> w, wallet_transactions |-> log], SubSeq(stmts, 1, 1))
Committed(w, log, stmts) ==
  ApplyStmts([wallets |-> w, wallet_transactions |-> log], stmts)

\* tx.Commit()
Commit(r, outcome) ==
  /\ alive
  /\ handler[r].pc = "commit"
  /\ IF outcome = "fail"
       THEN /\ handler' = [handler EXCEPT ![r] =
                             Responded(@, "rolledback", StatusInternalServerError)]
            /\ UNCHANGED <<wallets, wallet_transactions>>
       ELSE LET db == Committed(wallets, wallet_transactions, handler[r].txWrites) IN
            /\ wallets' = db.wallets
            /\ wallet_transactions' = db.wallet_transactions
            /\ handler' = [handler EXCEPT ![r] =
                             Responded(@, "committed", StatusOK)]
  /\ UNCHANGED <<alive, createStatus, loader, reader>>

\* the handler function returns
Return(r) ==
  /\ alive
  /\ handler[r].pc = "responded"
  /\ handler' = [handler EXCEPT ![r] = Returned(@)]
  /\ UNCHANGED <<alive, wallets, wallet_transactions, createStatus, loader, reader>>

\* ------------------------------------------- GET /api/v1/wallet/:id
\* (faulty variant: get-or-create, a missing wallet is inserted and returned)
GetWalletCreates(id, outcome) ==
  /\ alive
  /\ reader.pc = "idle"
  /\ wallets' = IF outcome = "ok" /\ id \notin DOMAIN wallets
                  THEN InsertWallet(wallets, id, InitialBalance)
                  ELSE wallets
  /\ reader' =
       IF outcome = "fail"
         THEN [IdleReader EXCEPT !.op = "get", !.userInputId = id,
                                 !.status = StatusNotFound]
         ELSE [IdleReader EXCEPT !.op = "get", !.userInputId = id,
                                 !.status = StatusOK,
                                 !.balance = wallets'[id]]
  /\ UNCHANGED <<alive, wallet_transactions, createStatus, handler, loader>>

\* select * from wallets where id = ? limit 1, and the response
GetWallet(id, outcome) ==
  /\ alive
  /\ reader.pc = "idle"
  /\ LET res == IF outcome = "fail"
                  THEN [Wallet |-> ZeroWallet, Err |-> "StoreError"]
                  ELSE QueryRow(wallets, id)
     IN reader' =
          IF res.Err # "nil"
            THEN [IdleReader EXCEPT !.op = "get", !.userInputId = id,
                                    !.status = StatusNotFound]
            ELSE [IdleReader EXCEPT !.op = "get", !.userInputId = id,
                                    !.status = StatusOK,
                                    !.balance = res.Wallet.Balance]
  /\ UNCHANGED <<alive, wallets, wallet_transactions, createStatus, handler, loader>>

\* ------------------------------------ GET /api/v1/wallet/:id/history
\* the rows of wallet_transactions where author_id = ? or sender_id = ?, in
\* the order the table returns them, each mapped to its DTO
RECURSIVE HistoryRows(_, _)
\* (faulty variant: only the rows the wallet authored)
HistoryRowsAuthorOnly(log, id) ==
  IF log = <<>> THEN <<>>
  ELSE IF Head(log).author_id = id
    THEN <<[AuthorId |-> Head(log).author_id, SenderId |-> Head(log).sender_id,
            Balance |-> Head(log).balance]>> \o HistoryRows(Tail(log), id)
    ELSE HistoryRows(Tail(log), id)
HistoryRows(log, id) ==
  IF log = <<>> THEN <<>>
  ELSE IF Head(log).author_id = id \/ Head(log).sender_id = id
    THEN <<[AuthorId |-> Head(log).author_id, SenderId |-> Head(log).sender_id,
            Balance |-> Head(log).balance]>> \o HistoryRows(Tail(log), id)
    ELSE HistoryRows(Tail(log), id)

\* the handler's first query: does the wallet exist
HistoryLookup(id, outcome) ==
  /\ alive
  /\ reader.pc = "idle"
  /\ LET res == IF outcome = "fail"
                  THEN [Wallet |-> ZeroWallet, Err |-> "StoreError"]
                  ELSE QueryRow(wallets, id)
     IN reader' =
          IF res.Err # "nil"
            THEN [IdleReader EXCEPT !.op = "history", !.userInputId = id,
                                    !.status = StatusNotFound]
            ELSE [IdleReader EXCEPT !.op = "history", !.userInputId = id,
                                    !.pc = "rows"]
  /\ UNCHANGED <<alive, wallets, wallet_transactions, createStatus, handler, loader>>

\* the handler's second query, the scan of its rows and the response
HistoryQuery(outcome) ==
  /\ alive
  /\ reader.pc = "rows"
  /\ reader' =
       IF outcome = "fail"
         THEN [reader EXCEPT !.pc = "idle", !.status = StatusNotFound]
         ELSE [reader EXCEPT !.pc = "idle", !.status = StatusOK,
                             !.rows = HistoryRows(wallet_transactions,
                                                  reader.userInputId)]
  /\ UNCHANGED <<alive, wallets, wallet_transactions, createStatus, handler, loader>>

\* ------------------------------------------------------------ specifications
\* requests are served concurrently, one goroutine each
Next ==
  \/ \E id \in Ids : CreateWallet(id)
  \/ CreateWalletInsertFails
  \/ \E r \in Reqs : SendMalformed(r)
  \/ \E r \in Reqs, f \in Ids, t \in Ids, a \in Amounts : Send(r, f, t, a)
  \/ \E r \in Reqs : SendBeginFails(r)
  \/ \E r \in Reqs, s \in Sides, o \in StoreOutcomes : LoadQuery(r, s, o)
  \/ \E r \in Reqs : RecvFrom(r)
  \/ \E r \in Reqs : RecvTo(r)
  \/ \E r \in Reqs, o \in StoreOutcomes : Exec(r, o)
  \/ \E r \in Reqs, o \in StoreOutcomes : Commit(r, o)
  \/ \E r \in Reqs : Return(r)

Spec == Init /\ [][Next]_vars

\* requests arrive one at a time: none while a send request is in flight
SeqNext ==
  \/ \E id \in Ids : Quiescent /\ CreateWallet(id)
  \/ Quiescent /\ CreateWalletInsertFails
  \/ \E r \in Reqs : Quiescent /\ SendMalformed(r)
  \/ \E r \in Reqs, f \in Ids, t \in Ids, a \in Amounts :
       Quiescent /\ Send(r, f, t, a)
  \/ \E r \in Reqs : Quiescent /\ SendBeginFails(r)
  \/ \E r \in Reqs, s \in Sides, o \in StoreOutcomes : LoadQuery(r, s, o)
  \/ \E r \in Reqs : RecvFrom(r)
  \/ \E r \in Reqs : RecvTo(r)
  \/ \E r \in Reqs, o \in StoreOutcomes : Exec(r, o)
  \/ \E r \in Reqs, o \in StoreOutcomes : Commit(r, o)
  \/ \E r \in Reqs : Return(r)

SeqSpec == Init /\ [][SeqNext]_vars

\* the GET endpoints, served at any moment of a sequential stream of wallet
\* creations and transfers
ReadNext ==
  \/ SeqNext
  \/ \E id \in Ids, o \in StoreOutcomes : GetWallet(id, o)
  \/ \E id \in Ids, o \in StoreOutcomes : HistoryLookup(id, o)
  \/ \E o \in StoreOutcomes : HistoryQuery(o)

ReadSpec == Init /\ [][ReadNext]_vars


\* ------------------------------------------------------------------ claims
\* the handler of request r moves from position p in this step
Leaves(r, p) == handler[r].pc = p /\ handler'[r].pc # p /\ alive'
\* the handler of request r writes its response in this step
Responds(r) == handler[r].pc # "responded" /\ handler'[r].pc = "responded"
\* the row the handler of request r inserts
RecordOf(h) == [author_id |-> h.fromId, sender_id |-> h.toId, balance |-> h.amount]
\* every wallet but those in S keeps its row
OthersUnchanged(S) ==
  /\ DOMAIN wallets' = DOMAIN wallets
  /\ \A i \in DOMAIN wallets \ S : wallets'[i] = wallets[i]

\* the step in which request r is approved when its loaded balances allow it
ApprovedWhenPositive(r) ==
  LET h == handler[r]
      res == loader[r]["to"].res
  IN (/\ Leaves(r, "recvTo")
      /\ res.Err = "nil"
      /\ h.walletResFrom.Wallet.Balance - h.amount > 0
      /\ res.Wallet.Balance + h.amount > 0)
     => handler'[r].pc = "exec"

\* an approved request is answered 200 unless a store call fails (500)
ApprovedAnswered(r) ==
  /\ Leaves(r, "exec") =>
       \/ handler'[r].pc = "commit"
       \/ handler'[r].pc = "responded" /\ handler'[r].status = StatusInternalServerError
  /\ Leaves(r, "commit") =>
       /\ handler'[r].pc = "responded"
       /\ handler'[r].status \in {StatusOK, StatusInternalServerError}

\* the commit of request r, B and D being the balances before it: the source
\* holds B - A, the destination D + A, one record with amount A is appended
CommitMovesAmount(r) ==
  LET h == handler[r] IN
  (Leaves(r, "commit") /\ handler'[r].status = StatusOK) =>
     /\ wallets'[h.fromId] = wallets[h.fromId] - h.amount
     /\ wallets'[h.toId] = wallets[h.toId] + h.amount
     /\ OthersUnchanged({h.fromId, h.toId})
     /\ wallet_transactions' = Append(wallet_transactions, RecordOf(h))

C2_RejectedUnchanged ==
  [][/\ \A r \in Reqs :
          LET h == handler[r]
              res == loader[r]["to"].res
          IN /\ (/\ Leaves(r, "recvTo")
                 /\ res.Err = "nil"
                 /\ \/ h.walletResFrom.Wallet.Balance - h.amount <= 0
                    \/ res.Wallet.Balance + h.amount <= 0)
                => /\ handler'[r].pc = "responded"
                   /\ handler'[r].status = StatusBadRequest
                   /\ handler'[r].txWrites = <<>>
                   /\ UNCHANGED <<wallets, wallet_transactions>>
             /\ h.status = StatusBadRequest =>
                  /\ handler'[r].status = StatusBadRequest
                  /\ handler'[r].pc \in {"responded", "done"}
     /\ (wallet_transactions' # wallet_transactions
           \/ \E i \in DOMAIN wallets : i \notin DOMAIN wallets' \/ wallets'[i] # wallets[i])
        => \E r \in Reqs : handler[r].pc = "commit" /\ handler[r].status = 0]_vars

\* a transfer that would leave the source at exactly zero has been rejected
C2_Witness ==
  \E r \in Reqs :
    LET h == handler[r] IN
    /\ h.pc = "responded" /\ h.status = StatusBadRequest /\ h.tx = "open"
    /\ h.walletResFrom.Err = "nil" /\ h.walletResTo.Err = "nil"
    /\ h.fromId # h.toId
    /\ h.walletResFrom.Wallet.Balance - h.amount = 0
    /\ wallets[h.fromId] = h.walletResFrom.Wallet.Balance
    /\ wallets[h.toId] = h.walletResTo.Wallet.Balance
    /\ wallet_transactions = <<>>

\* C3: a transfer is atomic.  A step in which a request ends in failure (load,
\* statement or commit) leaves the committed tables as they were; the tables
\* change only in a wallet insert or in the commit step of one request, and
\* that step makes the source update, the destination update and the record
\* visible together.
C3_Atomic ==
  [][/\ \A r \in Reqs :
          (Responds(r) /\ handler'[r].status # StatusOK)
            => UNCHANGED <<wallets, wallet_transactions>>
     /\ \A r \in Reqs :
          LET h == handler[r] IN
          (Leaves(r, "commit") /\ handler'[r].status = StatusOK)
            => /\ wallet_transactions' = Append(wallet_transactions, RecordOf(h))
               /\ wallets'[h.toId] = h.toAmount
               /\ h.fromId # h.toId => wallets'[h.fromId] = h.fromAmount
               /\ OthersUnchanged({h.fromId, h.toId})
     /\ (wallets' # wallets \/ wallet_transactions' # wallet_transactions)
          => \/ /\ wallet_transactions' = wallet_transactions
                /\ \E id \in Ids \ DOMAIN wallets :
                     /\ DOMAIN wallets' = DOMAIN wallets \cup {id}
                     /\ \A i \in DOMAIN wallets : wallets'[i] = wallets[i]
             \/ \E r \in Reqs :
                  Leaves(r, "commit") /\ handler'[r].status = StatusOK]_vars

\* a commit has failed after the statements were executed in the transaction
C3_Witness ==
  \E r \in Reqs :
    LET h == handler[r] IN
    /\ h.pc = "responded" /\ h.status = StatusInternalServerError
    /\ h.txWrites # <<>> /\ h.tx = "rolledback"
    /\ h.fromId # h.toId /\ h.amount = Step
    /\ wallets[h.fromId] = InitialBalance /\ wallets[h.toId] = InitialBalance
    /\ wallet_transactions = <<>>


\* C4: the handler consumes the source loader's result first and the
\* destination loader's second.  A missing source is answered 404 whatever the
\* destination loader holds; an existing source with a missing destination is
\* answered 400; either step leaves the tables unchanged, and the request has
\* computed no new balance and executed no statement.
C4_SourceFirst ==
  [][\A r \in Reqs :
       LET h == handler[r]
           from == loader[r]["from"]
           to == loader[r]["to"]
           refused(status) ==
             /\ handler'[r].pc = "responded"
             /\ handler'[r].status = status
             /\ handler'[r].fromAmount = 0 /\ handler'[r].toAmount = 0
             /\ handler'[r].txWrites = <<>>
             /\ UNCHANGED <<wallets, wallet_transactions>>
       IN /\ (Leaves(r, "recvFrom") /\ from.res.Err = "ErrNoRows")
               => refused(StatusNotFound)
          /\ (Leaves(r, "recvTo") /\ to.res.Err = "ErrNoRows")
               => h.walletResFrom.Err = "nil" /\ refused(StatusBadRequest)
          /\ Leaves(r, "recvFrom") =>
               /\ from.pc = "send" /\ loader'[r]["from"].pc = "done"
               /\ loader'[r]["to"] = to
          /\ (to.pc # "done" /\ loader'[r]["to"].pc = "done") =>
               /\ Leaves(r, "recvTo") /\ to.pc = "send"
               /\ loader[r]["from"].pc = "done"]_vars

\* source and destination both missing, the destination's result unconsumed
C4_Witness ==
  \E r \in Reqs :
    LET h == handler[r] IN
    /\ h.pc = "responded" /\ h.status = StatusNotFound
    /\ h.fromId # h.toId
    /\ h.walletResFrom.Err = "ErrNoRows"
    /\ loader[r]["to"].pc = "send" /\ loader[r]["to"].res.Err = "ErrNoRows"

\* C5: in a self-transfer (source id = destination id) with no other request
\* interleaved, both new balances are computed from the wallet's one balance
\* B, the transfer is approved iff B - A > 0 and B + A > 0, and otherwise it is
\* rejected (400) with the tables unchanged.  Sequential specification.
C5_SelfTransferValidated ==
  [][\A r \in Reqs :
       LET h == handler[r]
           res == loader[r]["to"].res
           B == wallets[h.fromId]
       IN (Leaves(r, "recvTo") /\ h.fromId = h.toId /\ res.Err = "nil")
          => /\ h.walletResFrom.Wallet.Balance = B
             /\ res.Wallet.Balance = B
             /\ handler'[r].fromAmount = B - h.amount
             /\ handler'[r].toAmount = B + h.amount
             /\ handler'[r].pc = "exec" <=> (B - h.amount > 0 /\ B + h.amount > 0)
             /\ handler'[r].pc # "exec" =>
                  /\ handler'[r].pc = "responded"
                  /\ handler'[r].status = StatusBadRequest
                  /\ UNCHANGED <<wallets, wallet_transactions>>]_vars

\* a self-transfer rejected on B + A alone: B - A > 0 but B + A = 0
C5_Witness ==
  \E r \in Reqs :
    LET h == handler[r] IN
    /\ h.pc = "responded" /\ h.status = StatusBadRequest
    /\ h.fromId = h.toId /\ h.walletResTo.Err = "nil"
    /\ h.fromAmount > 0 /\ h.toAmount = 0
    /\ wallets[h.fromId] = h.walletResFrom.Wallet.Balance
    /\ wallet_transactions = <<>>

Approves(B, D, A) == ~Rejected(SubAmount(B, A), AddAmount(D, A))
\* the wallets after the commit of an approved transfer, run alone on w
BalancesAfter(w, f, t, A) ==
  Committed(w, <<>>, ExecStatements(f, t, A, SubAmount(w[f], A),
                                    AddAmount(w[t], A))).wallets

\* in the wallets w, -A from X to Y is decided as A from Y to X and leaves the
\* same balances; an approved A from X to Y followed by -A from X to Y is
\* approved again and gives back w
ReversesIn(w) ==
  \A X \in DOMAIN w, Y \in DOMAIN w, A \in Amounts :
    X # Y =>
      /\ Approves(w[X], w[Y], 0 - A) <=> Approves(w[Y], w[X], A)
      /\ BalancesAfter(w, X, Y, 0 - A) = BalancesAfter(w, Y, X, A)
      /\ Approves(w[X], w[Y], A) =>
           LET after == BalancesAfter(w, X, Y, A) IN
           /\ Approves(after[X], after[Y], 0 - A)
           /\ BalancesAfter(after, X, Y, 0 - A) = w

\* C7: negative amounts reverse the flow.  On every reachable table of
\* wallets, for distinct X, Y and every amount A, the handler decides -A from
\* X to Y as it decides A from Y to X and both commits leave the same
\* balances; and in the runs, a request of -A from X to Y that follows the
\* first committed transfer, of A from X to Y, is approved and its commit
\* gives both wallets their original balance back.  Sequential specification.
C7_NegativeReverses ==
  [][/\ ReversesIn(wallets')
     /\ \A r \in Reqs :
          LET h == handler[r]
              first == [author_id |-> h.fromId, sender_id |-> h.toId,
                        balance |-> 0 - h.amount]
          IN (h.fromId # h.toId /\ wallet_transactions = <<first>>)
             => /\ (Leaves(r, "recvTo") /\ loader[r]["to"].res.Err = "nil")
                     => handler'[r].pc = "exec"
                /\ (Leaves(r, "commit") /\ handler'[r].status = StatusOK)
                     => /\ wallets'[h.fromId] = InitialBalance
                        /\ wallets'[h.toId] = InitialBalance]_vars

\* 30 from X to Y, then -30 from X to Y: both committed, both wallets at 100
C7_Witness ==
  \E r \in Reqs :
    LET h == handler[r] IN
    /\ h.pc = "responded" /\ h.status = StatusOK
    /\ h.fromId # h.toId /\ h.amount = 0 - Step
    /\ wallet_transactions =
         <<[author_id |-> h.fromId, sender_id |-> h.toId, balance |-> Step],
           RecordOf(h)>>
    /\ wallets[h.fromId] = InitialBalance /\ wallets[h.toId] = InitialBalance

\* the send requests answered 200
Answered200 == {r \in Reqs : handler[r].status = StatusOK}

C9_NoOrphanRecords ==
  \A i \in 1..Len(wallet_transactions) :
    /\ wallet_transactions[i].author_id \in DOMAIN wallets
    /\ wallet_transactions[i].sender_id \in DOMAIN wallets

\* a record is in the log and a request naming a missing wallet was refused
C9_Witness ==
  /\ Len(wallet_transactions) = 1
  /\ DOMAIN wallets # Ids
  /\ \E r \in Reqs :
       /\ handler[r].pc = "responded"
       /\ handler[r].walletResFrom.Err = "ErrNoRows"

\* C10 as stated: no store failure ends the server, and every store failure
\* in a transfer (opening the transaction, a load, the statements, the
\* commit) is answered 500.
C10_StoreFailureAnswered500 ==
  /\ alive
  /\ \A r \in Reqs :
       (/\ handler[r].pc = "responded"
        /\ \/ handler[r].walletResFrom.Err = "StoreError"
           \/ handler[r].walletResTo.Err = "StoreError")
       => handler[r].status = StatusInternalServerError

\* the positions of the log whose record names wallet w
RecordsOf(log, w) ==
  {i \in DOMAIN log : log[i].author_id = w \/ log[i].sender_id = w}
\* the k-th of these positions in log order
KthRecordOf(log, w, k) ==
  CHOOSE i \in RecordsOf(log, w) :
    Cardinality({j \in RecordsOf(log, w) : j <= i}) = k

\* C11: a history request whose store calls succeed passes the existence
\* check exactly when the wallet exists and is answered 404 in that step when
\* it does not; its second query is answered 200 with one row per committed
\* record naming the wallet as author_id or sender_id, in log order, with the
\* record's fields, which is the empty sequence when there is none; and every
\* 200 answer of the endpoint is for an existing wallet.
C11_History ==
  /\ [][/\ \A id \in Ids :
             HistoryLookup(id, "ok")
               => IF id \in DOMAIN wallets
                    THEN reader'.pc = "rows"
                    ELSE reader'.pc = "idle" /\ reader'.status = StatusNotFound
        /\ HistoryQuery("ok")
             => LET w == reader.userInputId
                    log == wallet_transactions
                    n == Cardinality(RecordsOf(log, w))
                IN /\ reader'.status = StatusOK
                   /\ Len(reader'.rows) = n
                   /\ \A k \in 1..n :
                        LET rec == log[KthRecordOf(log, w, k)]
                        IN reader'.rows[k] =
                             [AuthorId |-> rec.author_id,
                              SenderId |-> rec.sender_id,
                              Balance |-> rec.balance]]_vars
  /\ [](reader.op = "history" /\ reader.status = StatusOK
          => reader.userInputId \in DOMAIN wallets)

\* C11 witness: a history answered 200 with some but not all records of the log
C11_Witness ==
  /\ reader.op = "history" /\ reader.pc = "idle" /\ reader.status = StatusOK
  /\ reader.rows # <<>>
  /\ Len(reader.rows) < Len(wallet_transactions)

\* the last answer of the GET wallet endpoint is a balance that is still the
\* wallet's
BalanceCurrent ==
  /\ reader.op = "get" /\ reader.status = StatusOK
  /\ reader.balance = wallets[reader.userInputId]
\* this step commits a transfer naming wallet w
CommitsTransferNaming(w) ==
  \E r \in Reqs :
    /\ handler[r].pc = "commit" /\ handler'[r].pc = "responded"
    /\ handler'[r].status = StatusOK
    /\ w \in {handler[r].fromId, handler[r].toId}

\* C12: a step of a read endpoint (wallet or history) changes neither wallets
\* nor wallet_transactions; a wallet query whose store call succeeds answers
\* an existing wallet with 200 and the balance of its row; and a row's balance
\* changes only in the commit of a transfer naming the wallet.  Hence a second
\* query of a wallet, with no such commit since the first, returns the value
\* the first returned.
C12_ReadsChangeNothing ==
  [][/\ reader' # reader => UNCHANGED <<wallets, wallet_transactions>>
     /\ \A id \in Ids :
          GetWallet(id, "ok")
            => IF id \in DOMAIN wallets
                 THEN /\ reader'.status = StatusOK
                      /\ reader'.balance = wallets[id]
                      /\ (BalanceCurrent /\ reader.userInputId = id
                            => reader'.balance = reader.balance)
                 ELSE reader'.status = StatusNotFound
     /\ \A w \in DOMAIN wallets :
          ~CommitsTransferNaming(w)
            => /\ w \in DOMAIN wallets' /\ wallets'[w] = wallets[w]
               /\ (BalanceCurrent /\ reader.userInputId = w /\ reader' = reader
                     => BalanceCurrent')]_vars

\* C12 witness: a wallet query answered with a balance a transfer has written,
\* the log and the row being as the transfer left them
C12_Witness ==
  /\ reader.op = "get" /\ reader.pc = "idle" /\ reader.status = StatusOK
  /\ reader.balance # InitialBalance
  /\ reader.balance = wallets[reader.userInputId]
  /\ Len(wallet_transactions) = 1

\* the handler h names wallet w and every balance of w it loaded is B
LoadedBalanceIs(h, w, B) ==
  /\ w \in {h.fromId, h.toId}
  /\ h.fromId = w => h.walletResFrom.Wallet.Balance = B
  /\ h.toId = w => h.walletResTo.Wallet.Balance = B
\* what the transfer of h adds to the balance it loaded of wallet w: the
\* destination update is the later statement
DeltaOn(h, w) == IF h.toId = w THEN h.amount ELSE 0 - h.amount
\* the wallets after the transfer of h run alone on w
SerialStep(w, h) ==
  IF Approves(w[h.fromId], w[h.toId], h.amount)
    THEN BalancesAfter(w, h.fromId, h.toId, h.amount)
    ELSE w

\* C13: the handler writes the balances it computed from its own loads
\* whatever the store holds at commit.  Whenever two requests with amounts
\* other than zero are the only ones answered 200, share a wallet w and both
\* loaded the initial balance of w, the balance of w is the one the later of
\* the two commits wrote, the earlier write being lost, and it is the balance
\* of w after neither serial order of the two transfers.
C13_LostUpdate ==
  \A r1 \in Reqs, r2 \in Reqs, w \in Ids :
    LET h1 == handler[r1]
        h2 == handler[r2]
    IN (/\ r1 # r2 /\ Answered200 = {r1, r2}
        /\ h1.pc = "responded" /\ h2.pc = "responded"
        /\ h1.amount # 0 /\ h2.amount # 0
        /\ LoadedBalanceIs(h1, w, InitialBalance)
        /\ LoadedBalanceIs(h2, w, InitialBalance))
       => LET W0 == [i \in DOMAIN wallets |-> InitialBalance]
          IN /\ \E h \in {h1, h2} :
                  /\ wallet_transactions[Len(wallet_transactions)] = RecordOf(h)
                  /\ wallets[w] = InitialBalance + DeltaOn(h, w)
             /\ wallets[w] # SerialStep(SerialStep(W0, h1), h2)[w]
             /\ wallets[w] # SerialStep(SerialStep(W0, h2), h1)[w]

\* C13 witness: two transfers of the same amount from one wallet to another
\* both loaded the source at its initial balance and both committed; the
\* source was debited once
C13_Witness ==
  \E r1 \in Reqs, r2 \in Reqs :
    LET h1 == handler[r1]
        h2 == handler[r2]
    IN /\ r1 # r2 /\ Answered200 = {r1, r2}
       /\ h1.pc = "responded" /\ h2.pc = "responded"
       /\ h1.fromId = h2.fromId /\ h1.toId = h2.toId /\ h1.fromId # h1.toId
       /\ h1.amount = Step /\ h2.amount = Step
       /\ h1.walletResFrom.Wallet.Balance = InitialBalance
       /\ h2.walletResFrom.Wallet.Balance = InitialBalance
       /\ Len(wallet_transactions) = 2
       /\ wallets[h1.fromId] = InitialBalance - Step

\* C14: no handler of a transfer has written its response, or returned, while
\* the transaction it opened is neither committed nor rolled back.
C14_TransactionClosedOnReturn ==
  \A r \in Reqs :
    handler[r].pc \in {"responded", "done"} => handler[r].tx # "open"

\* C15: no loader is blocked on the send of its result after the handler that
\* spawned it has written its response: from there on nothing receives from
\* the loader's channel, so the loader never terminates.
C15_NoLoaderLeftBlocked ==
  \A r \in Reqs, s \in Sides :
    handler[r].pc \in {"responded", "done"} => loader[r][s].pc # "send"

\* C16: every step in which a loader runs its query is taken while the
\* transaction of its request is open.
C16_ReadsInsideTransaction ==
  [][\A r \in Reqs, s \in Sides :
       (loader[r][s].pc = "query" /\ loader'[r][s].pc = "send")
         => handler[r].tx = "open"]_vars

\* the sum of the balances of the wallets w
RECURSIVE SumOfBalances(_)
SumOfBalances(w) ==
  IF DOMAIN w = {} THEN 0
  ELSE LET i == CHOOSE j \in DOMAIN w : TRUE
       IN w[i] + SumOfBalances([j \in DOMAIN w \ {i} |-> w[j]])

\* C17: with requests served one at a time, in every reachable state the sum
\* of all wallet balances is the initial balance times the number of wallets:
\* wallet creation adds the initial balance and every transfer, self-transfers
\* included, leaves the total as it is.  Sequential specification.
C17_FundsConserved ==
  SumOfBalances(wallets) = InitialBalance * Cardinality(DOMAIN wallets)

\* C18: in every reachable state, under any interleaving of wallet creations
\* and concurrent transfers, every committed wallet balance is strictly
\* positive, and so is every balance a transfer has executed an update with.
C18_BalancesPositive ==
  /\ \A i \in DOMAIN wallets : wallets[i] > 0
  /\ \A r \in Reqs :
       \A k \in DOMAIN handler[r].txWrites :
         handler[r].txWrites[k].op = "update"
           => handler[r].txWrites[k].balance > 0

\* C18 witness: two transfers between distinct wallets have committed with a
\* lost update (the total is no longer the initial one) and every balance is
\* positive
C18_Witness ==
  /\ Cardinality(Answered200) = 2
  /\ Len(wallet_transactions) = 2
  /\ \A k \in DOMAIN wallet_transactions :
       wallet_transactions[k].author_id # wallet_transactions[k].sender_id
  /\ SumOfBalances(wallets) # InitialBalance * Cardinality(DOMAIN wallets)
  /\ \A i \in DOMAIN wallets : wallets[i] > 0

\* C19: no step removes a wallet; a step changes the balance of an existing
\* wallet only if it commits a transfer naming that wallet, and that commit
\* leaves every wallet it does not name as it was; a step that changes the set
\* of wallets adds exactly one id that had no row, with the initial balance,
\* leaves every existing balance and the log as they were, and a failed
\* insert (an id collision among them) changes no table.
C19_BalanceChangesOnlyInCommit ==
  [][/\ \A w \in DOMAIN wallets :
          /\ w \in DOMAIN wallets'
          /\ wallets'[w] # wallets[w] => CommitsTransferNaming(w)
     /\ \A r \in Reqs :
          (Leaves(r, "commit") /\ handler'[r].status = StatusOK)
            => OthersUnchanged({handler[r].fromId, handler[r].toId})
     /\ DOMAIN wallets' # DOMAIN wallets
          => /\ \E id \in Ids \ DOMAIN wallets :
                  /\ DOMAIN wallets' = DOMAIN wallets \cup {id}
                  /\ wallets'[id] = InitialBalance
             /\ \A i \in DOMAIN wallets : wallets'[i] = wallets[i]
             /\ wallet_transactions' = wallet_transactions
             /\ createStatus' = StatusCreated
     /\ (alive /\ ~alive') => UNCHANGED <<wallets, wallet_transactions>>]_vars

\* C19 witness: a wallet was created and holds the initial balance beside a
\* wallet whose balance the one committed transfer, naming only that wallet,
\* has changed
C19_Witness ==
  \E X \in DOMAIN wallets, Y \in DOMAIN wallets :
    /\ X # Y /\ createStatus = StatusCreated
    /\ wallet_transactions # <<>>
    /\ \A k \in DOMAIN wallet_transactions :
         /\ wallet_transactions[k].author_id = X
         /\ wallet_transactions[k].sender_id = X
    /\ wallets[X] # InitialBalance /\ wallets[Y] = InitialBalance

=============================================================================
